---- MODULE Spec2Model ----
(***************************************************************************)
(* walnut.core.async_cache: a Redis-coordinated cache decorator.           *)
(*                                                                         *)
(* Several processes wrap the same function with the same options.  The    *)
(* model follows one cache key: the lock key and the value key of that key *)
(* in the shared store, and in every process the local_waiters entry of    *)
(* the key, the master attempt get_computed_or_redis_value and the         *)
(* Deferreds handed to the callers.                                        *)
(***************************************************************************)
EXTENDS Integers, Sequences, FiniteSets, TLC

\* ------------------------------------------------------------------ bounds
NumProcs == 2       \* processes sharing the store
MaxCalls == 3       \* calls of the wrapper over all processes
MaxTTL   == 1       \* the ttl option, in clock ticks
MaxWait  == 1       \* the max_wait option, in clock ticks

Procs == 1..NumProcs

VARIABLES
    ttl,            \* option ttl: {} is None, {n} is n seconds
    max_wait,       \* option max_wait after async_cache's defaulting
    lock,           \* store: value of lock_key, {} when the key is absent
    lockTTL,        \* store: seconds before lock_key expires, {} when none
    queue,          \* store: the list at value_key, head first
    blocked,        \* store: clients blocked in BRPOPLPUSH, oldest first
    inflight,       \* publish requests sent and not yet executed
    pc,             \* per process: where its master attempt stands
    att,            \* per process: locals of the current master attempt
    waited,         \* per process: seconds spent blocked in the wait step
    local_waiters,  \* per process: {} or {slaves}, slaves a list of callers
    deferreds,      \* per process: the Deferreds of its latest group of callers
    calls,          \* calls of the wrapper made so far
    ncomp,          \* invocations of the wrapped function so far
    epoch,          \* times lock_key was created so far
    published,      \* {} or {msg}: the message of the publish step the
                    \* store executed in this epoch
    obs,            \* what each GET_SCRIPT executed in this epoch returned
    publish_failed, \* "none", or the kind of exception a publish request
                    \* ended with: "skip" (of skip_cache_on) or "err"
    owners          \* per epoch, the invocation of func its owner made

vars == <<ttl, max_wait, lock, lockTTL, queue, blocked, inflight, pc, att,
          waited, local_waiters, deferreds, calls, ncomp, epoch, published,
          obs, publish_failed, owners>>

histVars == <<publish_failed, owners>>

storeVars == <<lock, lockTTL, queue, blocked>>
cfgVars   == <<ttl, max_wait>>

\* ------------------------------------------------------- JSON and options
SENTINEL == 0

\* json_encode_func on the two dicts the code encodes: {} and {content: v}.
json_encode_func(d) ==
    IF DOMAIN d = {} THEN <<"{", "}">>
    ELSE <<"{", "content", ":", d["content"], "}">>

\* json_decode_func: the dict of a JSON text produced by json_encode_func.
json_decode_func(s) ==
    IF Len(s) = 2 THEN [k \in {} |-> SENTINEL]
    ELSE [k \in {s[2]} |-> s[4]]

\* dict.get(key, default)
Get(d, key, default) == IF key \in DOMAIN d THEN d[key] ELSE default

EmptyDict == [k \in {} |-> SENTINEL]
EMPTY_JSON_MSG == json_encode_func(EmptyDict)

\* Redis nil, Python None: no text at all.
None == <<>>

\* max_wait: None becomes 0.
DefaultMaxWait(opt) == IF opt = {} THEN 0 ELSE CHOOSE n \in opt : TRUE

\* The id_tag of a process's wrapper: namespace + uuid4, one per decoration.
id_tag(p) == p

\* ------------------------------------------------------------- the store
\* The commands the scripts and the wrapper send that Redis executes.
RedisCommands == {"setnx", "del", "lindex", "rpush", "expire", "brpoplpush"}

Store == [lock |-> lock, lockTTL |-> lockTTL, queue |-> queue]

lindex(q, i) == IF i + 1 \in DOMAIN q THEN q[i + 1] ELSE None
rpush(q, m)  == Append(q, m)
\* A pop that takes the tail and does not put it back (BRPOP).
Rotate_pop_only(q) == SubSeq(q, 1, Len(q) - 1)

\* A pop that puts the tail at the head and leaves it at the tail as well.
Rotate_push_only(q) == <<q[Len(q)]>> \o q

\* RPOPLPUSH q q: the tail moves to the head.
Rotate(q)    == <<q[Len(q)]>> \o SubSeq(q, 1, Len(q) - 1)

\* GET_SCRIPT with the DEL of value_key made whether or not the lock was set.
GET_SCRIPT_always_del(s, tag) ==
    LET owned == IF s.lock = {} THEN 1 ELSE 0
        s1 == IF owned = 1 THEN [s EXCEPT !.lock = {tag}, !.lockTTL = {}] ELSE s
        s2 == [s1 EXCEPT !.queue = <<>>]
    IN  [store |-> s2, reply |-> <<owned, lindex(s2.queue, 0)>>]

\* GET_SCRIPT with the lock set to expire from its creation on.
GET_SCRIPT_expiring(s, tag) ==
    LET owned == IF s.lock = {} THEN 1 ELSE 0
        s1 == IF owned = 1 THEN [s EXCEPT !.lock = {tag}, !.lockTTL = {1}] ELSE s
        s2 == IF owned = 1 THEN [s1 EXCEPT !.queue = <<>>] ELSE s1
    IN  [store |-> s2, reply |-> <<owned, lindex(s2.queue, 0)>>]

\* GET_SCRIPT with SET in the place of SETNX.
GET_SCRIPT_set(s, tag) ==
    LET s1 == [s EXCEPT !.lock = {tag}, !.lockTTL = {}]
        s2 == [s1 EXCEPT !.queue = <<>>]
    IN  [store |-> s2, reply |-> <<1, lindex(s2.queue, 0)>>]

\* GET_SCRIPT without the DEL of value_key.
GET_SCRIPT_no_del(s, tag) ==
    LET owned == IF s.lock = {} THEN 1 ELSE 0
        s1 == IF owned = 1 THEN [s EXCEPT !.lock = {tag}, !.lockTTL = {}] ELSE s
    IN  [store |-> s1, reply |-> <<owned, lindex(s1.queue, 0)>>]

\* GET_SCRIPT: SETNX lock_key, DEL value_key when owned, LINDEX value_key 0.
GET_SCRIPT(s, tag) ==
    LET owned == IF s.lock = {} THEN 1 ELSE 0
        s1 == IF owned = 1 THEN [s EXCEPT !.lock = {tag}, !.lockTTL = {}] ELSE s
        s2 == IF owned = 1 THEN [s1 EXCEPT !.queue = <<>>] ELSE s1
    IN  [store |-> s2, reply |-> <<owned, lindex(s2.queue, 0)>>]

\* PUSH_AND_EXPIRE_SCRIPT: RPUSH value_key msg, EXPIRE lock_key seconds.
PUSH_AND_EXPIRE_SCRIPT(s, msg, seconds) ==
    LET s1 == [s EXCEPT !.queue = rpush(s.queue, msg)]
    IN  IF s1.lock = {} THEN [store |-> s1, error |-> FALSE]
        ELSE [store |-> [s1 EXCEPT !.lockTTL = {seconds}], error |-> FALSE]

\* PUSH_AND_DELETE_SCRIPT with its two calls in the other order.
PUSH_AND_DELETE_SCRIPT_delete_first(s, msg) ==
    IF "delete" \in RedisCommands
    THEN [store |-> [s EXCEPT !.queue = rpush(s.queue, msg), !.lock = {},
                              !.lockTTL = {}], error |-> FALSE]
    ELSE [store |-> s, error |-> TRUE]

\* PUSH_AND_DELETE_SCRIPT: RPUSH value_key msg, then redis.call('delete',
\* lock_key).  The table constructor evaluates the RPUSH first; a redis.call
\* of a name that is no command raises, the script ends with an error reply
\* and what it wrote before stays written.
PUSH_AND_DELETE_SCRIPT(s, msg) ==
    LET s1 == [s EXCEPT !.queue = rpush(s.queue, msg)]
    IN  IF "delete" \in RedisCommands
        THEN [store |-> [s1 EXCEPT !.lock = {}, !.lockTTL = {}], error |-> FALSE]
        ELSE [store |-> s1, error |-> TRUE]

\* A publish without ttl that also removes the lock record.
RPUSH_releasing(s, msg) ==
    [store |-> [s EXCEPT !.queue = rpush(s.queue, msg), !.lock = {},
                         !.lockTTL = {}], error |-> FALSE]

\* redis.rpush(value_key, msg), the publish without a ttl.
RPUSH(s, msg) == [store |-> [s EXCEPT !.queue = rpush(s.queue, msg)], error |-> FALSE]

\* Timeout 0 read as 'do not wait'.
TimedOut_zero_is_now(timeout, w) == w >= timeout

\* A wait that no timeout ends.
TimedOut_never(timeout, w) == FALSE

\* BRPOPLPUSH timeout: 0 blocks for ever, n > 0 gives up after n seconds.
TimedOut(timeout, w) == timeout # 0 /\ w >= timeout

\* Serving the clients blocked in BRPOPLPUSH value_key value_key after a
\* push: oldest first, each takes the tail and puts it back at the head.
RECURSIVE ServeBlocked(_, _)
ServeBlocked(q, bl) ==
    IF bl = <<>> \/ q = <<>> THEN [queue |-> q, blocked |-> bl, got |-> <<>>]
    ELSE LET r == ServeBlocked(Rotate(q), Tail(bl))
         IN  [queue |-> r.queue, blocked |-> r.blocked,
              got |-> <<<<Head(bl), q[Len(q)]>>>> \o r.got]

\* ------------------------------------------------------ Deferred results
Pending        == [method |-> "pending",  type |-> "none",       id |-> 0]
Callback(v)    == [method |-> "callback", type |-> "value",      id |-> v]
FuncError(n)   == [method |-> "errback",  type |-> "FuncError",  id |-> n]
StoreError     == [method |-> "errback",  type |-> "StoreError", id |-> 0]

\* Locals of get_computed_or_redis_value at its start.
NewAttempt == [acq |-> "none", own_lock |-> FALSE, json_msg |-> None,
               inv |-> 0, invoked |-> 0, waits |-> 0, woke |-> "none",
               outcome |-> Pending,
               ep |-> 0,        \* the epoch its GET_SCRIPT was executed in
               fired |-> <<>>]  \* the slaves in the order they were fired

\* Every exception handler written as a bare except.
skip_cache_on_everything == {"skip", "err"}

\* The kinds of exception a store request can end with, and the kinds of
\* the option skip_cache_on (by default txredisapi.ConnectionError).
skip_cache_on == {"skip"}
Failures == {"skip", "err"}

Init ==
    /\ ttl \in {{}} \cup {{MaxTTL}}
    /\ \E opt \in {{}, {0}, {MaxWait}} : max_wait = DefaultMaxWait(opt)
    /\ lock = {} /\ lockTTL = {} /\ queue = <<>> /\ blocked = <<>>
    /\ inflight = {}
    /\ pc = [p \in Procs |-> "idle"]
    /\ att = [p \in Procs |-> NewAttempt]
    /\ waited = [p \in Procs |-> 0]
    /\ local_waiters = [p \in Procs |-> {}]
    /\ deferreds = [p \in Procs |-> <<>>]
    /\ calls = 0 /\ ncomp = 0 /\ epoch = 0 /\ published = {}
    /\ obs = {}
    /\ publish_failed = "none" /\ owners = <<>>

\* run_local_waiters firing only the first slave of the group.
run_local_waiters_first_only(p, res) ==
    IF local_waiters[p] = {} THEN deferreds[p]
    ELSE LET slaves == CHOOSE sl \in local_waiters[p] : TRUE
         IN  [c \in DOMAIN deferreds[p] |->
                IF slaves[1] = c /\ deferreds[p][c].method = "pending"
                THEN res ELSE deferreds[p][c]]

\* run_local_waiters taking the first of the list for the master.
run_local_waiters_after_first(p, res) ==
    IF local_waiters[p] = {} THEN deferreds[p]
    ELSE LET slaves == CHOOSE sl \in local_waiters[p] : TRUE
         IN  [c \in DOMAIN deferreds[p] |->
                IF (\E i \in DOMAIN slaves : i > 1 /\ slaves[i] = c)
                   /\ deferreds[p][c].method = "pending"
                THEN res ELSE deferreds[p][c]]

\* run_local_waiters(result, method, key): pop the entry of the key and fire
\* every slave that has not been called, in list order.
run_local_waiters(p, res) ==
    IF local_waiters[p] = {} THEN deferreds[p]
    ELSE LET slaves == CHOOSE sl \in local_waiters[p] : TRUE
         IN  [c \in DOMAIN deferreds[p] |->
                IF (\E i \in DOMAIN slaves : slaves[i] = c)
                   /\ deferreds[p][c].method = "pending"
                THEN res ELSE deferreds[p][c]]

\* The loop over the slaves reversed.
slaves_fired_reversed(p) ==
    IF local_waiters[p] = {} THEN <<>>
    ELSE LET slaves == CHOOSE sl \in local_waiters[p] : TRUE
             rev == [i \in DOMAIN slaves |-> slaves[Len(slaves) + 1 - i]]
         IN  SelectSeq(rev, LAMBDA c : deferreds[p][c].method = "pending")

\* Lines 308-310: the slaves run_local_waiters fires, in the order of the
\* loop.
slaves_fired(p) ==
    IF local_waiters[p] = {} THEN <<>>
    ELSE LET slaves == CHOOSE sl \in local_waiters[p] : TRUE
         IN  SelectSeq(slaves, LAMBDA c : deferreds[p][c].method = "pending")

\* run_local_waiters reading the entry of the key without removing it.
Finish_keeps_entry(p, a, res) ==
    /\ pc' = [pc EXCEPT ![p] = "idle"]
    /\ att' = [att EXCEPT ![p] = [a EXCEPT !.outcome = res,
                                           !.fired = slaves_fired(p)]]
    /\ local_waiters' = local_waiters
    /\ deferreds' = [deferreds EXCEPT ![p] = run_local_waiters(p, res)]
    /\ ncomp' = ncomp

\* The master Deferred fires with res: its callbacks run run_local_waiters.
Finish(p, a, res) ==
    /\ pc' = [pc EXCEPT ![p] = "idle"]
    /\ att' = [att EXCEPT ![p] = [a EXCEPT !.outcome = res,
                                           !.fired = slaves_fired(p)]]
    /\ local_waiters' = [local_waiters EXCEPT ![p] = {}]
    /\ deferreds' = [deferreds EXCEPT ![p] = run_local_waiters(p, res)]
    /\ ncomp' = ncomp

\* maybeDeferred(func, *args, **kwargs): the wrapped function is invoked.
Invoke(p, a, where) ==
    /\ pc' = [pc EXCEPT ![p] = where]
    /\ att' = [att EXCEPT ![p] = [a EXCEPT !.inv = ncomp + 1,
                                           !.invoked = @ + 1]]
    /\ ncomp' = ncomp + 1
    /\ UNCHANGED <<local_waiters, deferreds>>

\* An attempt that, finding no content, tries the acquisition again.
DecodeOrCompute_retrying(p, a, json_msg) ==
    LET msg   == json_decode_func(json_msg)
        value == Get(msg, "content", SENTINEL)
    IN  IF value = SENTINEL
        THEN /\ pc' = [pc EXCEPT ![p] = "acquire"]
             /\ att' = [att EXCEPT ![p] = a]
             /\ UNCHANGED <<local_waiters, deferreds, ncomp>>
        ELSE Finish(p, a, Callback(value))

\* Lines 297-303: decode the message; its content is the value, and without
\* content the attempt computes the value itself.
DecodeOrCompute(p, a, json_msg) ==
    LET msg   == json_decode_func(json_msg)
        value == Get(msg, "content", SENTINEL)
    IN  IF value = SENTINEL THEN Invoke(p, a, "fallback_compute")
        ELSE Finish(p, a, Callback(value))

\* wrapper(*args, **kwargs) called in process p.  The Deferreds of a group
\* whose master has fired are no longer referenced by the wrapper and are
\* dropped from the state when the next group starts.
wrapper(p) ==
    /\ calls < MaxCalls
    /\ pc[p] # "crashed"
    /\ calls' = calls + 1
    /\ IF local_waiters[p] # {}
       THEN LET deferred == Len(deferreds[p]) + 1
            IN  /\ deferreds' = [deferreds EXCEPT ![p] = Append(@, Pending)]
                /\ local_waiters' = [local_waiters EXCEPT ![p] =
                                       {Append(sl, deferred) : sl \in @}]
                /\ UNCHANGED <<pc, att>>
       ELSE LET deferred == 1
            IN  /\ deferreds' = [deferreds EXCEPT ![p] = <<Pending>>]
                /\ local_waiters' = [local_waiters EXCEPT ![p] = {<<deferred>>}]
                /\ pc' = [pc EXCEPT ![p] = "acquire"]
                /\ att' = [att EXCEPT ![p] = NewAttempt]
    /\ UNCHANGED <<cfgVars, storeVars, inflight, waited, ncomp, epoch,
                   published, obs,
                   histVars>>

\* The pair that would send the call to the wait step.
SkipReply_wait == <<0, None>>

\* Line 186: what get_lock_or_cached_value makes of an exception of
\* skip_cache_on, as the pair (own_lock, json_msg).
SkipReply == <<0, EMPTY_JSON_MSG>>

\* get_lock_or_cached_value (lines 180-188) and the code after it up to the
\* next yield (lines 268-301).  outcome: the store executes GET_SCRIPT, or
\* redis.eval raises an exception of skip_cache_on, or another exception.
get_lock_or_cached_value(p) ==
    /\ pc[p] = "acquire"
    /\ \E outcome \in {"ok"} \cup Failures :
         IF outcome # "ok" /\ outcome \notin skip_cache_on
         THEN /\ Finish(p, [att[p] EXCEPT !.acq = outcome], StoreError)
              /\ UNCHANGED <<lock, lockTTL, queue, epoch, published, obs,
                             owners>>
         ELSE LET r == IF outcome = "ok" THEN GET_SCRIPT(Store, id_tag(p))
                       ELSE [store |-> Store, reply |-> SkipReply]
                  own_lock == r.reply[1] = 1
                  json_msg == r.reply[2]
                  fresh    == lock = {} /\ r.store.lock # {}
                  a        == [att[p] EXCEPT !.acq = outcome,
                                             !.own_lock = own_lock,
                                             !.json_msg = json_msg,
                                             !.ep = IF outcome # "ok" THEN 0
                                                    ELSE IF fresh THEN epoch + 1
                                                    ELSE epoch]
              IN  /\ lock' = r.store.lock
                  /\ lockTTL' = r.store.lockTTL
                  /\ queue' = r.store.queue
                  /\ epoch' = IF fresh THEN epoch + 1 ELSE epoch
                  /\ published' = IF fresh THEN {} ELSE published
                  /\ obs' = IF outcome = "ok"
                            THEN (IF fresh THEN {} ELSE obs)
                                 \cup {[p |-> p, own |-> own_lock]}
                            ELSE obs
                  /\ owners' = IF fresh THEN Append(owners, ncomp + 1)
                               ELSE owners
                  /\ IF own_lock THEN Invoke(p, a, "owner_compute")
                     ELSE IF json_msg = None
                     THEN /\ pc' = [pc EXCEPT ![p] = "wait"]
                          /\ att' = [att EXCEPT ![p] =
                                       [a EXCEPT !.waits = @ + 1]]
                          /\ UNCHANGED <<local_waiters, deferreds, ncomp>>
                     ELSE DecodeOrCompute(p, a, json_msg)
    /\ UNCHANGED <<cfgVars, blocked, inflight, waited, calls, publish_failed>>

\* The store executes BRPOPLPUSH value_key value_key max_wait of process p.
brpoplpush(p) ==
    /\ pc[p] = "wait"
    /\ IF queue # <<>>
       THEN /\ queue' = Rotate(queue)
            /\ pc' = [pc EXCEPT ![p] = "woken"]
            /\ att' = [att EXCEPT ![p] = [@ EXCEPT !.json_msg = queue[Len(queue)],
                                                   !.woke = "msg"]]
            /\ UNCHANGED <<blocked, waited>>
       ELSE /\ blocked' = Append(blocked, p)
            /\ pc' = [pc EXCEPT ![p] = "blocked"]
            /\ waited' = [waited EXCEPT ![p] = 0]
            /\ UNCHANGED <<queue, att>>
    /\ UNCHANGED <<cfgVars, lock, lockTTL, inflight, local_waiters, deferreds,
                   calls, ncomp, epoch, published, obs,
                   histVars>>

Without(bl, p) == SelectSeq(bl, LAMBDA x : x # p)

\* The store gives up the blocked BRPOPLPUSH of p and replies nil.
brpoplpush_timeout(p) ==
    /\ pc[p] = "blocked"
    /\ TimedOut(max_wait, waited[p])
    /\ blocked' = Without(blocked, p)
    /\ waited' = [waited EXCEPT ![p] = 0]
    /\ pc' = [pc EXCEPT ![p] = "woken"]
    /\ att' = [att EXCEPT ![p] = [@ EXCEPT !.json_msg = None, !.woke = "timeout"]]
    /\ UNCHANGED <<cfgVars, lock, lockTTL, queue, inflight,
                   local_waiters, deferreds, calls, ncomp, epoch, published, obs,
                   histVars>>

\* wait_for_cached_value returns and the attempt goes on (lines 252-303).
wait_for_cached_value(p) ==
    /\ pc[p] = "woken"
    /\ LET json_msg == IF att[p].json_msg = None THEN EMPTY_JSON_MSG
                       ELSE att[p].json_msg
       IN  DecodeOrCompute(p, [att[p] EXCEPT !.json_msg = json_msg], json_msg)
    /\ UNCHANGED <<cfgVars, storeVars, inflight, waited, calls, epoch,
                   published, obs,
                   histVars>>

\* redis.brpoplpush raises in process p: an exception of skip_cache_on is
\* logged and stands for no message, any other exception leaves the attempt.
wait_for_cached_value_raises(p) ==
    /\ pc[p] \in {"wait", "blocked"}
    /\ blocked' = Without(blocked, p)
    /\ \E outcome \in Failures :
         IF outcome \in skip_cache_on
         THEN DecodeOrCompute(p, [att[p] EXCEPT !.json_msg = EMPTY_JSON_MSG,
                                                !.woke = outcome],
                              EMPTY_JSON_MSG)
         ELSE Finish(p, [att[p] EXCEPT !.woke = outcome], StoreError)
    /\ waited' = [waited EXCEPT ![p] = 0]
    /\ UNCHANGED <<cfgVars, lock, lockTTL, queue, inflight, calls,
                   epoch, published, obs,
                   histVars>>

\* The owner's func returned (lines 285-287, 303): cache_value(value) sends
\* its request and is not waited for; the attempt returns the value.
owner_returns(p) ==
    /\ pc[p] = "owner_compute"
    /\ LET value == att[p].inv
           json_msg == json_encode_func([content |-> value])
       IN  /\ inflight' = inflight \cup
                  {[by |-> p, op |-> "cache_value", msg |-> json_msg]}
           /\ Finish(p, att[p], Callback(value))
    /\ UNCHANGED <<cfgVars, storeVars, waited, calls, epoch, published, obs,
                   histVars>>

\* The owner's func raised (lines 277-284): notify_waiters_and_release_lock()
\* sends its request and is not waited for; the exception is raised again.
owner_raises(p) ==
    /\ pc[p] = "owner_compute"
    /\ inflight' = inflight \cup
           {[by |-> p, op |-> "notify_waiters_and_release_lock",
             msg |-> EMPTY_JSON_MSG]}
    /\ Finish(p, att[p], FuncError(att[p].inv))
    /\ UNCHANGED <<cfgVars, storeVars, waited, calls, epoch, published, obs,
                   histVars>>

\* A fallback that caches its value as an owner does.
fallback_returns_caching(p) ==
    /\ pc[p] = "fallback_compute"
    /\ inflight' = inflight \cup
           {[by |-> p, op |-> "cache_value",
             msg |-> json_encode_func([content |-> att[p].inv])]}
    /\ Finish(p, att[p], Callback(att[p].inv))
    /\ UNCHANGED <<cfgVars, storeVars, waited, calls, epoch, published, obs,
                   histVars>>

\* The func invoked by a non-owner (line 301) returned or raised.
fallback_returns(p) ==
    /\ pc[p] = "fallback_compute"
    /\ Finish(p, att[p], Callback(att[p].inv))
    /\ UNCHANGED <<cfgVars, storeVars, inflight, waited, calls, epoch,
                   published, obs,
                   histVars>>

fallback_raises(p) ==
    /\ pc[p] = "fallback_compute"
    /\ Finish(p, att[p], FuncError(att[p].inv))
    /\ UNCHANGED <<cfgVars, storeVars, inflight, waited, calls, epoch,
                   published, obs,
                   histVars>>

\* A push reached the store: the blocked clients it serves get their reply.
Served(res) ==
    LET sb == ServeBlocked(res.store.queue, blocked)
        woken(q) == \E i \in DOMAIN sb.got : sb.got[i][1] = q
        msgOf(q) == sb.got[CHOOSE i \in DOMAIN sb.got : sb.got[i][1] = q][2]
    IN  /\ lock' = res.store.lock
        /\ lockTTL' = res.store.lockTTL
        /\ queue' = sb.queue
        /\ blocked' = sb.blocked
        /\ pc' = [q \in Procs |-> IF woken(q) THEN "woken" ELSE pc[q]]
        /\ att' = [q \in Procs |->
                     IF woken(q) THEN [att[q] EXCEPT !.json_msg = msgOf(q),
                                                     !.woke = "msg"]
                     ELSE att[q]]
        /\ waited' = [q \in Procs |-> IF woken(q) THEN 0 ELSE waited[q]]

\* cache_value with its failure raised to the callers of the owner.
cache_value_raising(r) ==
    /\ r \in inflight
    /\ r.op = "cache_value"
    /\ inflight' = inflight \ {r}
    /\ \E outcome \in {"ok"} \cup Failures :
         IF outcome = "ok"
         THEN /\ Served(IF ttl # {}
                        THEN PUSH_AND_EXPIRE_SCRIPT(Store, r.msg,
                                                    CHOOSE t \in ttl : TRUE)
                        ELSE RPUSH(Store, r.msg))
              /\ published' = {r.msg}
              /\ UNCHANGED <<publish_failed, deferreds>>
         ELSE /\ publish_failed' = outcome
              /\ deferreds' = [deferreds EXCEPT ![r.by] =
                                 [c \in DOMAIN @ |-> StoreError]]
              /\ UNCHANGED <<storeVars, pc, att, waited, published>>
    /\ UNCHANGED <<cfgVars, local_waiters, calls, ncomp, epoch, obs,
                   owners>>

\* The store executes the request of cache_value (lines 217-232), or the
\* request fails: skip_cache_on is logged, anything else is an unhandled
\* error of a Deferred nobody waits for.
cache_value(r) ==
    /\ r \in inflight
    /\ r.op = "cache_value"
    /\ inflight' = inflight \ {r}
    /\ \E outcome \in {"ok"} \cup Failures :
         IF outcome = "ok"
         THEN /\ Served(IF ttl # {}
                        THEN PUSH_AND_EXPIRE_SCRIPT(Store, r.msg,
                                                    CHOOSE t \in ttl : TRUE)
                        ELSE RPUSH(Store, r.msg))
              /\ published' = {r.msg}
              /\ UNCHANGED publish_failed
         ELSE /\ publish_failed' = outcome
              /\ UNCHANGED <<storeVars, pc, att, waited, published>>
    /\ UNCHANGED <<cfgVars, local_waiters, deferreds, calls, ncomp, epoch, obs,
                   owners>>

\* The store executes the request of notify_waiters_and_release_lock (lines
\* 196-206), or the request fails; every exception is logged, the error
\* reply of the script among them.
notify_waiters_and_release_lock(r) ==
    /\ r \in inflight
    /\ r.op = "notify_waiters_and_release_lock"
    /\ inflight' = inflight \ {r}
    /\ \E outcome \in {"ok"} \cup Failures :
         IF outcome = "ok"
         THEN LET res == PUSH_AND_DELETE_SCRIPT(Store, r.msg)
              IN  /\ Served(res)
                  /\ published' = {r.msg}
                  /\ publish_failed' = IF res.error THEN "err"
                                       ELSE publish_failed
         ELSE /\ publish_failed' = outcome
              /\ UNCHANGED <<storeVars, pc, att, waited, published>>
    /\ UNCHANGED <<cfgVars, local_waiters, deferreds, calls, ncomp, epoch, obs,
                   owners>>

\* One second passes: the expiry of lock_key comes nearer and the blocked
\* clients have waited one second more.
Tick ==
    /\ \/ lockTTL # {}
       \/ \E p \in Procs : pc[p] = "blocked" /\ waited[p] < max_wait
    /\ IF lockTTL = {} THEN UNCHANGED <<lock, lockTTL>>
       ELSE LET n == CHOOSE t \in lockTTL : TRUE
            IN  IF n = 1 THEN lock' = {} /\ lockTTL' = {}
                ELSE lock' = lock /\ lockTTL' = {n - 1}
    /\ waited' = [p \in Procs |->
                    IF pc[p] = "blocked" /\ waited[p] < max_wait
                    THEN waited[p] + 1 ELSE waited[p]]
    /\ UNCHANGED <<cfgVars, queue, blocked, inflight, pc, att, local_waiters,
                   deferreds, calls, ncomp, epoch, published, obs,
                   histVars>>

\* The process of an owner dies while func runs (line 276).
Crash(p) ==
    /\ pc[p] = "owner_compute"
    /\ pc' = [pc EXCEPT ![p] = "crashed"]
    /\ UNCHANGED <<cfgVars, storeVars, inflight, att, waited, local_waiters,
                   deferreds, calls, ncomp, epoch, published, obs,
                   histVars>>

Next ==
    \/ \E p \in Procs : wrapper(p)
    \/ \E p \in Procs : get_lock_or_cached_value(p)
    \/ \E p \in Procs : brpoplpush(p)
    \/ \E p \in Procs : brpoplpush_timeout(p)
    \/ \E p \in Procs : wait_for_cached_value(p)
    \/ \E p \in Procs : wait_for_cached_value_raises(p)
    \/ \E p \in Procs : owner_returns(p)
    \/ \E p \in Procs : owner_raises(p)
    \/ \E p \in Procs : fallback_returns(p)
    \/ \E p \in Procs : fallback_raises(p)
    \/ \E r \in inflight : cache_value(r)
    \/ \E r \in inflight : notify_waiters_and_release_lock(r)
    \/ \E p \in Procs : Crash(p)
    \/ Tick

Spec == Init /\ [][Next]_vars

\* The reactor runs every continuation that is ready, the store answers
\* every command it was sent, func returns, and time passes.
LiveSpec ==
    /\ Spec
    /\ WF_vars(Tick)
    /\ \A p \in Procs :
         /\ WF_vars(get_lock_or_cached_value(p))
         /\ WF_vars(owner_returns(p) \/ owner_raises(p))
         /\ WF_vars(brpoplpush(p))
         /\ WF_vars(brpoplpush_timeout(p))
         /\ WF_vars(wait_for_cached_value(p))
         /\ WF_vars(fallback_returns(p) \/ fallback_raises(p))

TypeOK ==
    /\ Cardinality(lock) <= 1 /\ lock \subseteq Procs
    /\ Cardinality(lockTTL) <= 1 /\ lockTTL \subseteq 1..MaxTTL
    /\ max_wait \in 0..MaxWait
    /\ calls \in 0..MaxCalls

\* ---------------------------------------------------------------- claims
Owners == {p \in Procs : pc[p] \in {"owner_compute", "crashed"}}

\* Ownerships granted whose publish step the store has not executed.
OwnersInFlight == Cardinality(Owners) + Cardinality(inflight)

\* A step in which the store executes GET_SCRIPT for process p.
GetStep(p) == pc[p] = "acquire" /\ att'[p].acq = "ok"

\* C1: at any time at most one call over all processes is an owner in
\* flight (granted ownership, publish step not yet executed), and while
\* there is one the lock record is present, is its own, and has no expiry.
C1_AtMostOneOwnerInFlight ==
    /\ OwnersInFlight <= 1
    /\ \A p \in Owners : lock = {id_tag(p)} /\ lockTTL = {}
    /\ \A r \in inflight : lock = {id_tag(r.by)} /\ lockTTL = {}

\* One process computes as the owner while another was refused ownership
\* and waits for the value.
C1_Witness ==
    \E p, q \in Procs :
        /\ p # q
        /\ pc[p] = "owner_compute"
        /\ pc[q] = "blocked" /\ att[q].acq = "ok" /\ ~att[q].own_lock

\* C2: of the GET_SCRIPT executions of one epoch (from the lock record's
\* creation on), exactly one returned ownership, whatever their order.
C2_ExactlyOneOwnerPerEpoch ==
    /\ (epoch = 0) = (obs = {})
    /\ obs # {} => Cardinality({o \in obs : o.own}) = 1

\* Two processes ran GET_SCRIPT in the same epoch: one owns, one does not.
C2_Witness ==
    \E o1, o2 \in obs : o1.p # o2.p /\ o1.own /\ ~o2.own

AllFired(p) == \A c \in DOMAIN deferreds[p] : deferreds[p][c] = att[p].outcome
NoneFired(p) == \A c \in DOMAIN deferreds[p] : deferreds[p][c] = Pending

\* A step in which a caller attaches to the master attempt in flight in p.
Attach(p) ==
    local_waiters[p] # {} /\ calls' = calls + 1 /\ deferreds'[p] # deferreds[p]

\* C3: within one process a master attempt invokes func at most once, a
\* caller that arrives while it is in flight attaches without touching the
\* store, the attempt or func, and when the attempt ends every caller of the
\* group holds the same outcome, the master's value or error.
C3_Coalesced ==
    /\ [](\A p \in Procs :
            /\ att[p].invoked <= 1
            /\ pc[p] # "idle" => NoneFired(p)
            /\ pc[p] = "idle" /\ deferreds[p] # <<>> =>
                 AllFired(p) /\ att[p].outcome # Pending)
    /\ [][\A p \in Procs : Attach(p) =>
            UNCHANGED <<storeVars, inflight, pc, att, ncomp, epoch, obs>>]_vars

\* A group of at least two callers was resolved by one master attempt.
C3_Witness ==
    \E p \in Procs :
        /\ pc[p] = "idle" /\ Len(deferreds[p]) >= 2
        /\ att[p].invoked = 1 /\ AllFired(p)

\* C4 as stated: with max_wait = 0 no non-owner blocks on the value queue.
C4_NeverBlocks == max_wait = 0 => \A p \in Procs : pc[p] # "blocked"

\* C4 as amended: with max_wait = 0 the BRPOPLPUSH of a non-owner that saw
\* no value has no time limit: it never times out, and the waiter computes
\* the value itself only after the empty placeholder was pushed to it or
\* its pop failed with an exception of skip_cache_on.
C4_BlocksWithoutLimit ==
    max_wait = 0 =>
        \A p \in Procs :
            /\ att[p].woke # "timeout"
            /\ att[p].waits > 0 /\ att[p].invoked > 0 =>
                 att[p].woke \in {"msg", "skip"}

\* max_wait = 0, the owner has crashed and a waiter is blocked.
C4_Witness ==
    /\ max_wait = 0
    /\ \E p, q \in Procs : pc[p] = "crashed" /\ pc[q] = "blocked"

\* C5: with max_wait > 0 a blocked waiter does not hang: it leaves the wait
\* step, and when it left by the timeout it takes the empty placeholder,
\* invokes func once and ends with the outcome of that invocation.
C5_BoundedWait ==
    \A p \in Procs :
        /\ (max_wait > 0 /\ pc[p] = "blocked") ~> (pc[p] = "idle")
        /\ [](att[p].woke = "timeout" /\ pc[p] \in {"fallback_compute", "idle"}
              => /\ att[p].json_msg = EMPTY_JSON_MSG
                 /\ att[p].invoked = 1
                 /\ pc[p] = "idle" => att[p].outcome.id = att[p].inv)

\* The owner crashed, its waiter timed out and computed the value itself.
C5_Witness ==
    \E p, q \in Procs :
        /\ pc[p] = "crashed"
        /\ pc[q] = "idle" /\ att[q].woke = "timeout"
        /\ att[q].outcome = Callback(att[q].inv)

OwnOutcome(p) == att[p].outcome \in {Callback(att[p].inv), FuncError(att[p].inv)}

\* C6: an owner whose func failed ends with that error; once the store has
\* executed its failure publish no waiter is left blocked, each was handed
\* the empty placeholder, and a waiter handed the empty placeholder invokes
\* func itself and ends, with its callers, with the outcome of its own
\* invocation, never with the owner's error.
C6_FailureBroadcast ==
    /\ [](\A p \in Procs :
            pc[p] = "idle" /\ att[p].own_lock
            /\ att[p].outcome.method = "errback"
            => att[p].outcome = FuncError(att[p].inv) /\ AllFired(p))
    /\ [](published = {EMPTY_JSON_MSG} => blocked = <<>>)
    /\ [][published' = {EMPTY_JSON_MSG} /\ published' # published =>
            \A q \in Procs : pc[q] = "blocked" =>
                /\ pc'[q] = "woken" /\ att'[q].woke = "msg"
                /\ att'[q].json_msg = EMPTY_JSON_MSG]_vars
    /\ [](\A q \in Procs :
            att[q].woke = "msg" /\ att[q].json_msg = EMPTY_JSON_MSG
            /\ pc[q] \in {"fallback_compute", "idle"}
            => /\ ~att[q].own_lock /\ att[q].invoked = 1
               /\ pc[q] = "idle" => OwnOutcome(q) /\ AllFired(q))

\* The owner's caller got the error of the owner's func; a waiter of
\* another process was woken by the empty placeholder before its max_wait
\* and returned its own value.
C6_Witness ==
    \E p, q \in Procs :
        /\ p # q
        /\ pc[p] = "idle" /\ att[p].own_lock
        /\ att[p].outcome = FuncError(att[p].inv)
        /\ pc[q] = "idle" /\ att[q].waits = 1 /\ att[q].woke = "msg"
        /\ att[q].json_msg = EMPTY_JSON_MSG
        /\ att[q].outcome = Callback(att[q].inv)
        /\ max_wait > 0

\* C7 as stated: once the store has executed the failure publish of an
\* owner, the lock record is absent.
C7_LockReleasedOnFailure == published = {EMPTY_JSON_MSG} => lock = {}

\* The store holds the content message of this epoch's owner.
ContentPublished == published # {} /\ published # {EMPTY_JSON_MSG}
PublishedValue ==
    Get(json_decode_func(CHOOSE m \in published : TRUE), "content", SENTINEL)

\* The attempt of p ends in this step with the published value, as a
\* non-owner, having peeked it, without waiting and without invoking func.
Hit(p) ==
    /\ ~att'[p].own_lock
    /\ att'[p].json_msg \in published
    /\ att'[p].waits = 0 /\ att'[p].invoked = 0 /\ ncomp' = ncomp
    /\ pc'[p] = "idle"
    /\ att'[p].outcome = Callback(PublishedValue)
    /\ \A c \in DOMAIN deferreds'[p] : deferreds'[p][c] = Callback(PublishedValue)

\* The attempt of p is granted ownership in this step and invokes func.
Granted(p) ==
    /\ att'[p].own_lock /\ pc'[p] = "owner_compute"
    /\ att'[p].invoked = 1 /\ ncomp' = ncomp + 1
    /\ epoch' = epoch + 1

\* C8: with a ttl, while the published value's lock has not expired it has
\* an expiry set and every GET_SCRIPT execution is a hit: no ownership, the
\* published value peeked and returned, no wait, no invocation of func; a
\* GET_SCRIPT execution after the lock has expired is granted ownership and
\* invokes func again.
C8_TTL ==
    /\ [](ttl # {} /\ ContentPublished /\ lock # {} => lockTTL # {})
    /\ [][ttl # {} =>
            \A p \in Procs : GetStep(p) =>
                /\ ContentPublished /\ lock # {} => Hit(p)
                /\ lock = {} /\ epoch > 0 => Granted(p)]_vars

\* A call hit the published value and, after the lock expired, another call
\* was granted ownership afresh.
C8_Witness ==
    /\ ttl # {} /\ epoch = 2
    /\ \E p, q \in Procs :
        /\ pc[p] = "idle" /\ att[p].acq = "ok" /\ ~att[p].own_lock
        /\ att[p].invoked = 0 /\ att[p].outcome.method = "callback"
        /\ pc[q] = "owner_compute"

\* An owner's func returned and nothing has taken its place since.
OwnerSucceeded ==
    \/ \E r \in inflight : r.op = "cache_value"
    \/ ContentPublished
    \/ \E p \in Procs : /\ pc[p] = "idle" /\ att[p].own_lock
                        /\ att[p].outcome.method = "callback"

\* C9: without a ttl, after an owner's func returned the lock record stays
\* as it is, without expiry, and no GET_SCRIPT execution is granted
\* ownership; once the value is published it stays published and every
\* GET_SCRIPT execution is a hit.
C9_NoTTL ==
    [][ttl = {} =>
        /\ OwnerSucceeded =>
             /\ lock # {} /\ lock' = lock /\ lockTTL' = {} /\ epoch' = epoch
             /\ \A p \in Procs : GetStep(p) => ~att'[p].own_lock
        /\ ContentPublished =>
             /\ published' = published
             /\ \A p \in Procs : GetStep(p) => Hit(p)]_vars

\* Without a ttl, two later calls were served the value published by the
\* only owner there has been.
C9_Witness ==
    /\ ttl = {} /\ ContentPublished /\ epoch = 1 /\ calls = 3 /\ ncomp = 1
    /\ \E p \in Procs :
        /\ pc[p] = "idle" /\ att[p].acq = "ok" /\ ~att[p].own_lock
        /\ att[p].outcome = Callback(PublishedValue)

\* C10: a call whose GET_SCRIPT request failed with an exception of
\* skip_cache_on is no owner, never enters the wait step, invokes func once
\* itself and ends with the outcome of that invocation, which it shares with
\* no call of another process; no store error reaches its callers.
C10_Degraded ==
    \A p \in Procs :
        att[p].acq = "skip" =>
            /\ ~att[p].own_lock /\ p \notin Owners
            /\ att[p].waits = 0 /\ att[p].woke = "none"
            /\ pc[p] \in {"fallback_compute", "idle"}
            /\ att[p].invoked = 1
            /\ pc[p] = "idle" => OwnOutcome(p) /\ AllFired(p)
            /\ \A q \in Procs \ {p} : att[q].inv # att[p].inv

\* Every store operation so far failed: the store is untouched and two
\* processes have each computed their own value.
C10_Witness ==
    /\ obs = {} /\ lock = {} /\ queue = <<>> /\ epoch = 0
    /\ \A p \in Procs :
        /\ pc[p] = "idle" /\ att[p].acq = "skip"
        /\ att[p].outcome = Callback(att[p].inv)

\* The attempt of p was granted ownership in the current epoch.
OwnerOfEpoch(p) == att[p].own_lock /\ att[p].ep = epoch

\* C11 as stated: a store request that ended with an exception outside
\* skip_cache_on made the attempt that sent it end with that error, at the
\* acquire step, at the wait step and at both publish steps.
C11_SurfacedEverywhere ==
    /\ \A p \in Procs :
         att[p].acq = "err" \/ att[p].woke = "err" => att[p].outcome = StoreError
    /\ publish_failed = "err" =>
         \A p \in Procs : OwnerOfEpoch(p) => att[p].outcome = StoreError

\* C11 as amended: an exception outside skip_cache_on at the acquire step or
\* at the wait step ends the attempt with that error, func not invoked, and
\* every caller of the group gets it; at a publish step it reaches no
\* caller: the owner has ended with the outcome of its func before the
\* request is answered, and the failure changes no caller's result.
C11_SurfacedWhereAwaited ==
    /\ [](\A p \in Procs :
            att[p].acq = "err" \/ att[p].woke = "err" =>
                /\ pc[p] = "idle" /\ att[p].outcome = StoreError
                /\ att[p].invoked = 0 /\ AllFired(p))
    /\ [](\A p \in Procs :
            att[p].own_lock /\ pc[p] = "idle" => OwnOutcome(p) /\ AllFired(p))
    /\ [](publish_failed = "err" =>
            \A p \in Procs : OwnerOfEpoch(p) => pc[p] = "idle" /\ OwnOutcome(p))
    /\ [][publish_failed' # publish_failed =>
            /\ deferreds' = deferreds /\ local_waiters' = local_waiters
            /\ \A p \in Procs : att[p].own_lock => att'[p] = att[p]]_vars

\* The request of cache_value ended with an exception outside skip_cache_on
\* and the owner's caller holds the value, while the acquire step of another
\* process ended its callers with the store's error.
C11_Witness ==
    /\ publish_failed = "err" /\ published = {}
    /\ \E p, q \in Procs :
        /\ OwnerOfEpoch(p) /\ att[p].outcome = Callback(att[p].inv)
        /\ att[q].acq = "err" /\ deferreds[q] = <<StoreError>>

\* A step in which the store executes the publish request of an owner.
PushStep == published = {} /\ published' # {}

\* The content of a message, SENTINEL when it has none.
Content(json_msg) == Get(json_decode_func(json_msg), "content", SENTINEL)

\* C12: one push serves every client blocked in BRPOPLPUSH on the key,
\* however many: each is handed the pushed message, none stays blocked, the
\* message is in the queue afterwards, and a waiter handed a content message
\* ends with that content without invoking func.
C12_FanOut ==
    /\ [](\A q \in Procs :
            pc[q] = "blocked" <=> \E i \in DOMAIN blocked : blocked[i] = q)
    /\ [](queue # <<>> => blocked = <<>>)
    /\ [][PushStep =>
            LET msg == CHOOSE m \in published' : TRUE
            IN  /\ \E r \in inflight : r.msg = msg /\ inflight' = inflight \ {r}
                /\ Len(queue') = Len(queue) + 1
                /\ \E i \in DOMAIN queue' : queue'[i] = msg
                /\ blocked' = <<>>
                /\ \A q \in Procs : pc[q] = "blocked" =>
                     /\ pc'[q] = "woken" /\ att'[q].woke = "msg"
                     /\ att'[q].json_msg = msg]_vars
    /\ [][\A q \in Procs :
            pc[q] = "woken" /\ att[q].woke = "msg" /\ pc'[q] # "woken"
            /\ Content(att[q].json_msg) # SENTINEL =>
                /\ pc'[q] = "idle" /\ att'[q].invoked = 0
                /\ att'[q].outcome = Callback(Content(att[q].json_msg))
                /\ queue' = queue]_vars

\* Two waiters were handed the one content message the owner pushed, and
\* the message is in the queue.
C12_Witness ==
    \E p, q \in Procs :
        /\ p # q /\ published # {}
        /\ pc[p] = "woken" /\ pc[q] = "woken"
        /\ att[p].woke = "msg" /\ att[q].woke = "msg"
        /\ att[p].json_msg = att[q].json_msg
        /\ Content(att[p].json_msg) # SENTINEL
        /\ queue = <<att[p].json_msg>>

\* The value v is the one the owner of epoch e or of a later epoch computed.
FromEpochOn(v, e) == \E k \in DOMAIN owners : k >= e /\ owners[k] = v

\* C13: a content message a non-owner holds, peeked by its GET_SCRIPT or
\* handed to its BRPOPLPUSH, carries the value computed by the owner of the
\* epoch its GET_SCRIPT was executed in or of a later one, and so does the
\* value it ends with; the step that starts an epoch leaves the list empty,
\* and a content message in the list is the one of the current epoch's owner.
C13_NoLeftover ==
    /\ [](\A p \in Procs :
            att[p].acq = "ok" /\ ~att[p].own_lock /\ att[p].json_msg # None
            /\ Content(att[p].json_msg) # SENTINEL =>
                /\ FromEpochOn(Content(att[p].json_msg), att[p].ep)
                /\ pc[p] = "idle" =>
                     att[p].outcome = Callback(Content(att[p].json_msg)))
    /\ [](\A i \in DOMAIN queue :
            Content(queue[i]) # SENTINEL => Content(queue[i]) = owners[epoch])
    /\ [][epoch' # epoch => queue' = <<>>]_vars

\* In the second epoch, whose start found the first epoch's value in the
\* list, a non-owner ended with the value of the second epoch's owner.
C13_Witness ==
    /\ epoch = 2 /\ owners[1] # owners[2]
    /\ \E p \in Procs :
        /\ pc[p] = "idle" /\ att[p].acq = "ok" /\ ~att[p].own_lock
        /\ att[p].ep = 2 /\ att[p].outcome = Callback(owners[2])

\* The key's records in the store and the requests on their way to it.
keyVars == <<lock, lockTTL, queue, inflight>>

\* C14: the step in which a non-owner turns to invoking func itself and the
\* step in which that invocation ends leave the key's records and the
\* requests in flight as they are and execute no GET_SCRIPT; a publish
\* request is sent only by an owner whose func has ended, and only the
\* store's execution of such a request makes the list longer.
C14_FallbackFrame ==
    /\ [](\A p \in Procs : pc[p] = "fallback_compute" =>
            ~att[p].own_lock /\ att[p].invoked = 1)
    /\ [][\A p \in Procs :
            /\ pc[p] # "fallback_compute" /\ pc'[p] = "fallback_compute" =>
                 UNCHANGED <<keyVars, published, epoch>>
            /\ pc[p] = "fallback_compute" /\ pc'[p] # "fallback_compute" =>
                 /\ UNCHANGED <<keyVars, published, epoch, obs, blocked>>
                 /\ pc'[p] = "idle" /\ att'[p].acq = att[p].acq
                 /\ att'[p].outcome \in {Callback(att[p].inv),
                                         FuncError(att[p].inv)}]_vars
    /\ [][\A r \in inflight' \ inflight :
            pc[r.by] = "owner_compute" /\ att[r.by].own_lock]_vars
    /\ [][Len(queue') > Len(queue) =>
            \E r \in inflight : /\ inflight' = inflight \ {r}
                                /\ queue'[Len(queue')] = r.msg]_vars

\* The owner crashed; its waiter timed out, computed the value itself and
\* returned it, and the store holds the lock of the owner and no message.
C14_Witness ==
    \E p, q \in Procs :
        /\ pc[q] = "crashed" /\ lock = {id_tag(q)}
        /\ pc[p] = "idle" /\ ~att[p].own_lock /\ att[p].waits = 1
        /\ att[p].invoked = 1 /\ att[p].outcome = Callback(att[p].inv)
        /\ queue = <<>> /\ inflight = {} /\ published = {}

\* The per-call state machine: the positions an attempt may move to.
After(state) ==
    CASE state = "idle"             -> {"acquire"}
      [] state = "acquire"          -> {"owner_compute", "wait",
                                        "fallback_compute", "idle"}
      [] state = "wait"             -> {"blocked", "woken",
                                        "fallback_compute", "idle"}
      [] state = "blocked"          -> {"woken", "fallback_compute", "idle"}
      [] state = "woken"            -> {"fallback_compute", "idle"}
      [] state = "owner_compute"    -> {"idle", "crashed"}
      [] state = "fallback_compute" -> {"idle"}
      [] OTHER                      -> {}

\* C15: an attempt that has started leaves the acquire step, and unless its
\* process dies while func runs or its BRPOPLPUSH has no time limit and is
\* not answered, it ends; it moves along the per-call state machine only,
\* so the acquire step is entered by a new call alone and run once, the
\* wait step is entered at most once, func is invoked at most once, by an
\* owner or by a non-owner, and an attempt that has ended holds a value or
\* an error.
C15_NoRetry ==
    /\ \A p \in Procs :
         pc[p] = "acquire" ~>
            \/ pc[p] = "idle" /\ att[p].outcome # Pending
            \/ pc[p] = "crashed"
            \/ max_wait = 0 /\ pc[p] = "blocked"
    /\ [][\A p \in Procs :
            /\ pc'[p] # pc[p] => pc'[p] \in After(pc[p])
            /\ pc'[p] = "acquire" /\ pc[p] = "idle" =>
                 calls' = calls + 1 /\ att'[p] = NewAttempt
            /\ att'[p].acq # att[p].acq =>
                 att[p].acq = "none" \/ att'[p] = NewAttempt
            /\ att'[p].invoked # att[p].invoked =>
                 \/ att'[p] = NewAttempt
                 \/ /\ att[p].invoked = 0 /\ att'[p].invoked = 1
                    /\ ncomp' = ncomp + 1
                    /\ pc'[p] \in {"owner_compute", "fallback_compute"}]_vars
    /\ [](\A p \in Procs :
            /\ att[p].waits <= 1 /\ att[p].invoked <= 1
            /\ pc[p] = "acquire" => att[p].acq = "none"
            /\ pc[p] \notin {"idle", "acquire"} => att[p].acq # "none"
            /\ pc[p] \in {"wait", "blocked", "woken"} =>
                 att[p].waits = 1 /\ att[p].invoked = 0
            /\ pc[p] \in {"owner_compute", "crashed"} =>
                 att[p].own_lock /\ att[p].invoked = 1 /\ att[p].waits = 0
            /\ pc[p] = "fallback_compute" =>
                 ~att[p].own_lock /\ att[p].invoked = 1
            /\ pc[p] = "idle" /\ deferreds[p] # <<>> =>
                 att[p].acq # "none" /\ att[p].outcome # Pending)

\* An attempt went through every step of the longest path: refused
\* ownership, it waited, timed out, invoked func, and ended with func's
\* error.
C15_Witness ==
    \E p \in Procs :
        /\ pc[p] = "idle" /\ att[p].acq = "ok" /\ ~att[p].own_lock
        /\ att[p].waits = 1 /\ att[p].woke = "timeout" /\ att[p].invoked = 1
        /\ att[p].outcome = FuncError(att[p].inv)

\* The callers of the group of p in the order they called the wrapper.
Registered(p) == [i \in 1..Len(deferreds[p]) |-> i]

\* C16: while a master attempt is in flight its list of slaves holds the
\* callers of the group in the order they called, a caller that attaches is
\* put at the end, and when the attempt ends the slaves are fired in that
\* order, the caller that started the master first, each with the master's
\* outcome.
C16_FifoOrder ==
    /\ [](\A p \in Procs :
            /\ local_waiters[p] # {} => local_waiters[p] = {Registered(p)}
            /\ pc[p] = "idle" /\ deferreds[p] # <<>> =>
                 /\ att[p].fired = Registered(p)
                 /\ \A i \in DOMAIN att[p].fired :
                      deferreds[p][att[p].fired[i]] = att[p].outcome)
    /\ [][\A p \in Procs : Attach(p) =>
            /\ Len(deferreds'[p]) = Len(deferreds[p]) + 1
            /\ \A i \in DOMAIN deferreds[p] : deferreds'[p][i] = deferreds[p][i]
            /\ local_waiters'[p] = {Registered(p)'}]_vars

\* A master attempt that ended with an error fired its three callers, the
\* one that started it first and the two that attached in their order.
C16_Witness ==
    \E p \in Procs :
        /\ pc[p] = "idle" /\ att[p].fired = <<1, 2, 3>>
        /\ att[p].outcome.method = "errback"
        /\ deferreds[p] = <<att[p].outcome, att[p].outcome, att[p].outcome>>

\* A step in which the wrapper is called in process p.
Call(p) ==
    calls' = calls + 1 /\ (deferreds'[p] # deferreds[p] \/ pc'[p] # pc[p])

\* C17: local_waiters has an entry for the key exactly while a master
\* attempt is in flight; the entry is made by a call that finds none, which
\* starts a master attempt with itself as the only slave, it is removed by
\* the step in which the attempt ends, with a value or an error, and a call
\* after that step starts a new attempt.
C17_EntryWhileInFlight ==
    /\ [](\A p \in Procs : local_waiters[p] # {} <=> pc[p] # "idle")
    /\ [][\A p \in Procs :
            /\ Call(p) /\ local_waiters[p] = {} =>
                 /\ pc[p] = "idle" /\ pc'[p] = "acquire"
                 /\ att'[p] = NewAttempt
                 /\ local_waiters'[p] = {<<1>>} /\ deferreds'[p] = <<Pending>>
            /\ local_waiters[p] = {} /\ local_waiters'[p] # {} => Call(p)
            /\ local_waiters[p] # {} /\ local_waiters'[p] = {} =>
                 /\ pc[p] # "idle" /\ pc'[p] = "idle"
                 /\ att'[p].outcome.method \in {"callback", "errback"}]_vars

\* The first attempt of a process ended with an error, and the next call in
\* that process has started a new master attempt.
C17_Witness ==
    \E p \in Procs :
        /\ calls = 2 /\ ncomp = 1 /\ epoch = 1 /\ lock = {id_tag(p)}
        /\ \A q \in Procs \ {p} : deferreds[q] = <<>>
        /\ pc[p] = "acquire" /\ att[p] = NewAttempt
        /\ local_waiters[p] = {<<1>>} /\ deferreds[p] = <<Pending>>
        /\ published = {EMPTY_JSON_MSG}

\* The publish request of the current epoch's owner ended with an exception
\* of skip_cache_on.
PublishSkipped == publish_failed \in skip_cache_on

\* The owner whose publish request failed has ended with the outcome of its
\* func, and so have its callers.
OwnerKeepsOutcome ==
    \A p \in Procs :
        OwnerOfEpoch(p) => pc[p] = "idle" /\ OwnOutcome(p) /\ AllFired(p)

\* C18 as stated: after a publish request ended with an exception of
\* skip_cache_on the owner's callers hold the owner's outcome, and every
\* waiter blocked on the key comes to its end.
C18_WaitersResolve ==
    /\ [](PublishSkipped => OwnerKeepsOutcome)
    /\ \A q \in Procs :
         (PublishSkipped /\ pc[q] = "blocked") ~> (pc[q] = "idle")

\* C18 as amended: after a publish request ended with an exception of
\* skip_cache_on the owner's callers hold the owner's outcome and the
\* failure changed no caller's result; the list stays empty and the lock
\* stays, so no waiter is handed a message: a waiter leaves the wait step
\* only by its timeout or by a failure of its own BRPOPLPUSH; with
\* max_wait > 0 every blocked waiter does leave it and comes to its end, by
\* the timeout with the outcome of its own invocation of func; with
\* max_wait = 0 no waiter times out.
C18_WaitersTimeOut ==
    /\ [](PublishSkipped =>
            /\ OwnerKeepsOutcome
            /\ queue = <<>> /\ published = {} /\ lock # {} /\ lockTTL = {})
    /\ [][publish_failed' # publish_failed /\ publish_failed' \in skip_cache_on
            => UNCHANGED <<storeVars, pc, att, deferreds, local_waiters>>]_vars
    /\ [][PublishSkipped =>
            \A q \in Procs :
                pc[q] \in {"wait", "blocked"} /\ pc'[q] \notin {"wait", "blocked"}
                => /\ att'[q].woke \in {"timeout"} \cup Failures
                   /\ att'[q].woke = "timeout" => max_wait > 0]_vars
    /\ [](PublishSkipped =>
            \A q \in Procs :
                att[q].woke = "timeout" /\ pc[q] \in {"fallback_compute", "idle"}
                => /\ att[q].invoked = 1
                   /\ pc[q] = "idle" => OwnOutcome(q) /\ AllFired(q))
    /\ \A q \in Procs :
         (max_wait > 0 /\ PublishSkipped /\ pc[q] = "blocked")
            ~> (pc[q] = "idle" /\ att[q].woke \in {"timeout"} \cup Failures)

\* The owner's caller holds the value although its publish request failed,
\* and a waiter of the same epoch timed out and returned its own value.
C18_Witness ==
    /\ PublishSkipped /\ max_wait > 0
    /\ \E p, q \in Procs :
        /\ OwnerOfEpoch(p) /\ att[p].outcome = Callback(att[p].inv)
        /\ pc[q] = "idle" /\ att[q].ep = epoch /\ att[q].woke = "timeout"
        /\ att[q].outcome = Callback(att[q].inv) /\ att[q].inv # att[p].inv

\* C19: the list at value_key never holds more than one message: the step
\* that starts an epoch empties it, the store executes at most one publish
\* request per epoch, and a rotating pop leaves its length as it is.
C19_AtMostOneMessage ==
    /\ [](Len(queue) <= 1)
    /\ [](Cardinality(inflight) <= 1)
    /\ [](published # {} => inflight = {} /\ queue = <<CHOOSE m \in published : TRUE>>)
    /\ [](published = {} => queue = <<>>)
    /\ [][published' # published => published = {} \/ epoch' = epoch + 1]_vars

\* In the second epoch the list holds the one message of that epoch's owner
\* after a waiter's rotating pop.
C19_Witness ==
    /\ epoch = 2 /\ Len(queue) = 1 /\ Content(queue[1]) = owners[2]
    /\ \E q \in Procs : pc[q] = "woken" /\ att[q].json_msg = queue[1]

\* The result a caller holds, once it has one, is a value or an error.
Resolved(d) ==
    /\ d.method \in {"callback", "errback"}
    /\ d.method = "callback" <=> d.type = "value"

\* C20: a Deferred the wrapper returned is fired once: a result it holds is
\* a value or an error and is never replaced, it is among the slaves fired
\* exactly once, and when the master attempt of its group has ended none
\* of the group is pending.
C20_ResolvedOnce ==
    /\ [](\A p \in Procs : \A c \in DOMAIN deferreds[p] :
            \/ deferreds[p][c] = Pending /\ pc[p] # "idle"
            \/ /\ Resolved(deferreds[p][c]) /\ pc[p] = "idle"
               /\ Cardinality({i \in DOMAIN att[p].fired :
                                  att[p].fired[i] = c}) = 1)
    /\ [][\A p \in Procs : \A c \in DOMAIN deferreds[p] :
            deferreds[p][c] # Pending =>
                \/ c \in DOMAIN deferreds'[p] /\ deferreds'[p][c] = deferreds[p][c]
                \/ Call(p) /\ deferreds'[p] = <<Pending>>]_vars

\* A group of two callers was resolved with a value, each fired once.
C20_Witness ==
    \E p \in Procs :
        /\ pc[p] = "idle" /\ Len(deferreds[p]) = 2 /\ att[p].fired = <<1, 2>>
        /\ \A c \in DOMAIN deferreds[p] : deferreds[p][c].method = "callback"

====
